---- MODULE Spec2Model ----
(***************************************************************************)
(* The JSON response pipeline of plume-http's JsonFetchClient:             *)
(* defaultJsonFetchClient hands a fetch Response to an ordered list of     *)
(* FetchResponseHandler (validateBasicStatusCodes, jsonContentTypeValidator,*)
(* toJsonResponse); the first handler that returns something other than    *)
(* undefined decides the HttpResponse of the exchange.                     *)
(***************************************************************************)
EXTENDS Integers, Sequences, FiniteSets, TLC

VARIABLES
    exchange,            \* number of HTTP exchanges started so far
    pc,                  \* position of the current exchange in the pipeline
    response,            \* the fetch Response being resolved
    handlers,            \* the handlers given to fetchClient, in declaration order
    jsonContentTypeArg,  \* 2nd argument of jsonContentTypeValidator (may be omitted)
    jsonErrorMapperArg,  \* 2nd argument of toJsonResponse (may be omitted)
    idx,                 \* index in handlers of the next handler to invoke
    invoked,             \* handlers invoked so far, with what each returned
    bodyReads,           \* number of calls of response.json()
    mapperCalls,         \* invocations of the JsonErrorMapper: <<response, json, outcome>>
    jsonPromise,         \* state of the promise returned by toJsonResponse
    result,              \* the HttpResponse the exchange resolved to
    log                  \* messages given to logger.error

vars == <<exchange, pc, response, handlers, jsonContentTypeArg, jsonErrorMapperArg,
          idx, invoked, bodyReads, mapperCalls, jsonPromise, result, log>>

\* Number of exchanges one behaviour goes through (each is independent).
MaxExchanges == 2

-----------------------------------------------------------------------------
(* JavaScript values. A value has a type (as typeof, with null and array   *)
(* told apart), the text of a primitive, and the properties read from it   *)
(* (a property that is not there reads as undefined).                      *)

FieldNames == {"errorCode", "id", "message"}

PrimUndefined == [type |-> "undefined", prim |-> ""]
PrimNull == [type |-> "null", prim |-> "null"]
PrimNumber(n) == [type |-> "number", prim |-> n]
PrimString(s) == [type |-> "string", prim |-> s]

NoFields == [f \in FieldNames |-> PrimUndefined]

Undefined == [type |-> "undefined", prim |-> "", fields |-> NoFields]
JsNull == [type |-> "null", prim |-> "null", fields |-> NoFields]
JsNumber(n) == [type |-> "number", prim |-> n, fields |-> NoFields]
JsString(s) == [type |-> "string", prim |-> s, fields |-> NoFields]
JsArray == [type |-> "array", prim |-> "[]", fields |-> NoFields]
JsObject(fs) == [type |-> "object", prim |-> "", fields |-> fs]

\* {name: value}: an object with one property
Obj1(name, value) == JsObject([f \in FieldNames |-> IF f = name THEN value ELSE PrimUndefined])

\* the generic error of ./HttpResponse
genericError == [type |-> "object", prim |-> "genericError", fields |-> NoFields]

\* HttpResponse<T> = { error?: HttpError, response?: T }
HttpResponse(r, e) == [response |-> r, error |-> e]
ResponseOf(json) == HttpResponse(json, Undefined)
ErrorOf(err) == HttpResponse(Undefined, err)
EmptyResult == HttpResponse(Undefined, Undefined)

\* toErrorResponsePromise(error): a promise resolved to { error }
toErrorResponsePromise(err) == ErrorOf(err)

\* what a FetchResponseHandler returns: undefined, or (a promise of) an HttpResponse
ReturnUndefined == [undef |-> TRUE, value |-> EmptyResult]
Return(r) == [undef |-> FALSE, value |-> r]

-----------------------------------------------------------------------------
(* Strings of the content-type header, as sequences of characters.         *)

\* 'application/json'
ApplicationJson ==
    <<"a", "p", "p", "l", "i", "c", "a", "t", "i", "o", "n", "/", "j", "s", "o", "n">>
\* 'application/json; charset=utf-8'
ApplicationJsonUtf8 ==
    <<"a", "p", "p", "l", "i", "c", "a", "t", "i", "o", "n", "/", "j", "s", "o", "n", ";", " ", "c", "h", "a", "r", "s", "e", "t", "=", "u", "t", "f", "-", "8">>
\* 'application/vnd.app.v1+json'
VendorJson ==
    <<"a", "p", "p", "l", "i", "c", "a", "t", "i", "o", "n", "/", "v", "n", "d", ".", "a", "p", "p", ".", "v", "1", "+", "j", "s", "o", "n">>
\* 'Application/JSON'
UpperCaseJson ==
    <<"A", "p", "p", "l", "i", "c", "a", "t", "i", "o", "n", "/", "J", "S", "O", "N">>
\* 'text/plain'
TextPlain ==
    <<"t", "e", "x", "t", "/", "p", "l", "a", "i", "n">>
\* 'text/html'
TextHtml ==
    <<"t", "e", "x", "t", "/", "h", "t", "m", "l">>
\* 'json'
Json ==
    <<"j", "s", "o", "n">>

\* the value of response.headers.get('content-type'): null or a string
HeaderNull == [present |-> FALSE, value |-> <<>>]
Header(s) == [present |-> TRUE, value |-> s]

\* an optional argument: omitted or given (a string, or the name of a mapper)
Omitted == [supplied |-> FALSE, value |-> <<>>]
OmittedMapper == [supplied |-> FALSE, value |-> ""]
Supplied(s) == [supplied |-> TRUE, value |-> s]

\* String.prototype.indexOf: the first position (from 0) where sub occurs in s
\* as it is written, -1 when there is none
IndexOf(s, sub) ==
    LET hits == {i \in 0..(Len(s) - Len(sub)) : SubSeq(s, i + 1, i + Len(sub)) = sub}
    IN  IF hits = {} THEN -1 ELSE CHOOSE i \in hits : \A j \in hits : i <= j

-----------------------------------------------------------------------------
(* The fetch Response.                                                     *)

\* Response.ok: the status is in the range 200-299
Ok(resp) == resp.status >= 200 /\ resp.status <= 299

\* Response.json(): the body read and parsed. The promise rejects when the
\* body cannot be read or is not JSON text, and resolves to the parsed value.
JsonParse(body) ==
    CASE body = "{\"id\":1}" -> [rejected |-> FALSE, json |-> Obj1("id", PrimNumber("1"))]
      [] body = "{\"errorCode\":\"NOT_FOUND\"}" ->
            [rejected |-> FALSE, json |-> Obj1("errorCode", PrimString("NOT_FOUND"))]
      [] body = "{\"errorCode\":null}" ->
            [rejected |-> FALSE, json |-> Obj1("errorCode", PrimNull)]
      [] body = "{\"errorCode\":0}" ->
            [rejected |-> FALSE, json |-> Obj1("errorCode", PrimNumber("0"))]
      [] body = "{\"errorCode\":\"\"}" ->
            [rejected |-> FALSE, json |-> Obj1("errorCode", PrimString(""))]
      [] body = "{\"message\":\"oops\"}" ->
            [rejected |-> FALSE, json |-> Obj1("message", PrimString("oops"))]
      [] body = "{}" -> [rejected |-> FALSE, json |-> JsObject(NoFields)]
      [] body = "null" -> [rejected |-> FALSE, json |-> JsNull]
      [] body = "0" -> [rejected |-> FALSE, json |-> JsNumber("0")]
      [] body = "\"oops\"" -> [rejected |-> FALSE, json |-> JsString("oops")]
      [] body = "[]" -> [rejected |-> FALSE, json |-> JsArray]
      [] OTHER -> [rejected |-> TRUE, json |-> Undefined]

ReadJson(resp) ==
    IF resp.bodyFails THEN [rejected |-> TRUE, json |-> Undefined] ELSE JsonParse(resp.body)

\* json.errorCode: reading a property of null (or undefined) throws a TypeError
GetErrorCode(json) ==
    IF json.type \in {"null", "undefined"}
    THEN [thrown |-> TRUE, value |-> PrimUndefined]
    ELSE [thrown |-> FALSE, value |-> json.fields["errorCode"]]

-----------------------------------------------------------------------------
(* The handlers.                                                           *)

\* validateBasicStatusCodes (./FetchStatusValidators): an error for a status
\* outside the range of HTTP status codes, no verdict otherwise
validateBasicStatusCodes(resp) ==
    IF resp.status < 100 \/ resp.status > 599
    THEN [ret |-> Return(toErrorResponsePromise(genericError)), logged |-> <<>>]
    ELSE [ret |-> ReturnUndefined, logged |-> <<>>]

\* variant: the header compared for equality instead of searched
jsonContentTypeValidatorExact(resp, arg) ==
    LET jsonContentType == IF arg.supplied THEN arg.value ELSE ApplicationJson
        contentType == resp.contentType
    IN  IF ~contentType.present \/ contentType.value # jsonContentType
        THEN [ret |-> Return(toErrorResponsePromise(genericError)),
              logged |-> <<"Response type is not JSON">>]
        ELSE [ret |-> ReturnUndefined, logged |-> <<>>]

\* variant: a missing header is let through
jsonContentTypeValidatorNullPasses(resp, arg) ==
    LET jsonContentType == IF arg.supplied THEN arg.value ELSE ApplicationJson
        contentType == resp.contentType
    IN  IF contentType.present /\ IndexOf(contentType.value, jsonContentType) = -1
        THEN [ret |-> Return(toErrorResponsePromise(genericError)),
              logged |-> <<"Response type is not JSON">>]
        ELSE [ret |-> ReturnUndefined, logged |-> <<>>]

jsonContentTypeValidator(resp, arg) ==
    LET jsonContentType == IF arg.supplied THEN arg.value ELSE ApplicationJson
        contentType == resp.contentType
    IN  IF ~contentType.present \/ IndexOf(contentType.value, jsonContentType) = -1
        THEN [ret |-> Return(toErrorResponsePromise(genericError)),
              logged |-> <<"Response type is not JSON">>]
        ELSE [ret |-> ReturnUndefined, logged |-> <<>>]

\* a call of a JsonErrorMapper ends by a return or by a throw
Returns(r, msgs) == [thrown |-> FALSE, value |-> r, logged |-> msgs]
Throws == [thrown |-> TRUE, value |-> EmptyResult, logged |-> <<>>]

\* variant: if (!json.errorCode), a test of truthiness
defaultJsonErrorMapperTruthy(resp, json) ==
    LET errorCode == GetErrorCode(json)
    IN  IF errorCode.thrown THEN Throws
        ELSE IF errorCode.value \in
                  {PrimUndefined, PrimNull, PrimNumber("0"), PrimString("")}
        THEN Returns(ErrorOf(genericError), <<"Unrecognized JSON error">>)
        ELSE Returns(ErrorOf(json), <<>>)

\* variant: the errorCode test left out
defaultJsonErrorMapperUnchecked(resp, json) ==
    LET errorCode == GetErrorCode(json)
    IN  IF errorCode.thrown THEN Throws ELSE Returns(ErrorOf(json), <<>>)

\* variant: { error: json.errorCode } without the test
defaultJsonErrorMapperErrorCode(resp, json) ==
    LET errorCode == GetErrorCode(json)
    IN  IF errorCode.thrown THEN Throws
        ELSE Returns(ErrorOf([type |-> errorCode.value.type, prim |-> errorCode.value.prim,
                              fields |-> NoFields]), <<>>)

defaultJsonErrorMapper(resp, json) ==
    LET errorCode == GetErrorCode(json)
    IN  IF errorCode.thrown THEN Throws
        ELSE IF errorCode.value.type = "undefined"
        THEN Returns(ErrorOf(genericError), <<"Unrecognized JSON error">>)
        ELSE Returns(ErrorOf(json), <<>>)

\* JsonErrorMapper supplied by callers of toJsonResponse
customError == Obj1("errorCode", PrimString("CUSTOM"))

CustomMappers == {"asResponse", "asCustomError", "throwing"}

customJsonErrorMapper(name, resp, json) ==
    CASE name = "asResponse" -> Returns(ResponseOf(json), <<>>)
      [] name = "asCustomError" -> Returns(ErrorOf(customError), <<>>)
      [] name = "throwing" -> Throws

\* jsonErrorMapper: JsonErrorMapper = defaultJsonErrorMapper
\* variant: the argument ignored
jsonErrorMapperDefaultOnly(arg, resp, json) ==
    defaultJsonErrorMapper(resp, json)

jsonErrorMapper(arg, resp, json) ==
    IF arg.supplied THEN customJsonErrorMapper(arg.value, resp, json)
    ELSE defaultJsonErrorMapper(resp, json)

\* the callback toJsonResponse gives to then(): what it returns or throws, and
\* the mapper call it made, if any
\* variant: response.ok not tested
thenCallbackAlwaysMaps(resp, arg, json) ==
    LET m == jsonErrorMapper(arg, resp, json)
    IN  [thrown |-> m.thrown, value |-> m.value, logged |-> m.logged,
         mapped |-> <<[response |-> resp, json |-> json, thrown |-> m.thrown,
                       value |-> m.value]>>]

thenCallback(resp, arg, json) ==
    IF Ok(resp)
    THEN [thrown |-> FALSE, value |-> ResponseOf(json), logged |-> <<>>, mapped |-> <<>>]
    ELSE LET m == jsonErrorMapper(arg, resp, json)
         IN  [thrown |-> m.thrown, value |-> m.value, logged |-> m.logged,
              mapped |-> <<[response |-> resp, json |-> json, thrown |-> m.thrown,
                            value |-> m.value]>>]

\* the callback toJsonResponse gives to catch()
\* variant: the error logged and thrown again
catchCallbackRethrows ==
    [thrown |-> TRUE, value |-> EmptyResult, logged |-> <<"Cannot parse JSON">>]

\* variant: the error logged and {} returned
catchCallbackEmpty ==
    [thrown |-> FALSE, value |-> EmptyResult, logged |-> <<"Cannot parse JSON">>]

catchCallback ==
    [thrown |-> FALSE, value |-> ErrorOf(genericError), logged |-> <<"Cannot parse JSON">>]

\* the handlers of defaultJsonFetchClient, in the order given to fetchClient
\* variant: the last two handlers exchanged
defaultHandlersSwapped ==
    <<"validateBasicStatusCodes", "toJsonResponse", "jsonContentTypeValidator">>

defaultHandlers ==
    <<"validateBasicStatusCodes", "jsonContentTypeValidator", "toJsonResponse">>

-----------------------------------------------------------------------------
(* The responses and the calls the model goes through.                     *)

Statuses == {0, 200, 204, 404, 500}

ContentTypes ==
    {HeaderNull, Header(ApplicationJson), Header(ApplicationJsonUtf8), Header(VendorJson),
     Header(UpperCaseJson), Header(TextPlain), Header(TextHtml)}

WellFormedBodies ==
    {"{\"id\":1}", "{\"errorCode\":\"NOT_FOUND\"}", "{\"errorCode\":null}",
     "{\"errorCode\":0}", "{\"errorCode\":\"\"}", "{\"message\":\"oops\"}", "{}",
     "null", "0", "\"oops\"", "[]"}

MalformedBodies == {"", "<html>", "{\"id\":1"}

Bodies == WellFormedBodies \cup MalformedBodies

\* bodyFails: reading the body fails (the connection drops, the body was used)
Responses ==
    {r \in [status : Statuses, contentType : ContentTypes, body : Bodies,
            bodyFails : BOOLEAN] : r.bodyFails => r.body = "{\"id\":1}"}

NoResponse == [status |-> 0, contentType |-> HeaderNull, body |-> "", bodyFails |-> FALSE]

\* handler lists callers give to fetchClient besides the default one
CustomHandlers ==
    {<<"jsonContentTypeValidator", "toJsonResponse">>,
     <<"toJsonResponse">>,
     <<"validateBasicStatusCodes", "jsonContentTypeValidator">>}

JsonContentTypeArgs == {Omitted, Supplied(Json)}

JsonErrorMapperArgs == {OmittedMapper} \cup {Supplied(m) : m \in CustomMappers}

-----------------------------------------------------------------------------
(* The state machine.                                                      *)

Init ==
    /\ exchange = 0
    /\ pc = "idle"
    /\ response = NoResponse
    /\ handlers = <<>>
    /\ jsonContentTypeArg = Omitted
    /\ jsonErrorMapperArg = OmittedMapper
    /\ idx = 1
    /\ invoked = <<>>
    /\ bodyReads = 0
    /\ mapperCalls = <<>>
    /\ jsonPromise = "none"
    /\ result = EmptyResult
    /\ log = <<>>

\* fetchClient(httpRequest, ...handlers): the request is executed and its
\* Response handed to the handlers
fetchClient(resp, hs, ctArg, mapperArg) ==
    /\ exchange' = exchange + 1
    /\ pc' = "resolving"
    /\ response' = resp
    /\ handlers' = hs
    /\ jsonContentTypeArg' = ctArg
    /\ jsonErrorMapperArg' = mapperArg
    /\ idx' = 1
    /\ invoked' = <<>>
    /\ bodyReads' = 0
    /\ mapperCalls' = <<>>
    /\ jsonPromise' = "none"
    /\ result' = EmptyResult
    /\ log' = <<>>

defaultJsonFetchClient ==
    /\ pc = "idle"
    /\ \E resp \in Responses : fetchClient(resp, defaultHandlers, Omitted, OmittedMapper)

\* fetchClient with handlers of the caller: the validators and toJsonResponse
\* wrapped to pass their second argument
customJsonFetchClient ==
    /\ pc = "idle"
    /\ \E resp \in Responses, hs \in CustomHandlers, ctArg \in JsonContentTypeArgs,
          mapperArg \in JsonErrorMapperArgs :
           fetchClient(resp, hs, ctArg, mapperArg)

\* fetchClient takes what a synchronous handler returned: undefined passes to
\* the next handler, anything else is the HttpResponse of the exchange
HandlerReturned(name, v) ==
    /\ invoked' = Append(invoked, [handler |-> name, undef |-> v.ret.undef])
    /\ log' = log \o v.logged
    /\ IF v.ret.undef
       THEN /\ idx' = idx + 1
            /\ UNCHANGED <<pc, result>>
       ELSE /\ pc' = "done"
            /\ result' = v.ret.value
            /\ UNCHANGED idx
    /\ UNCHANGED <<exchange, response, handlers, jsonContentTypeArg, jsonErrorMapperArg,
                   bodyReads, mapperCalls, jsonPromise>>

NextHandlerIs(name) ==
    /\ pc = "resolving"
    /\ idx <= Len(handlers)
    /\ handlers[idx] = name

StatusValidatorStep ==
    /\ NextHandlerIs("validateBasicStatusCodes")
    /\ HandlerReturned("validateBasicStatusCodes", validateBasicStatusCodes(response))

ContentTypeValidatorStep ==
    /\ NextHandlerIs("jsonContentTypeValidator")
    /\ HandlerReturned("jsonContentTypeValidator",
                       jsonContentTypeValidator(response, jsonContentTypeArg))

\* toJsonResponse is called: response.json() starts reading the body and the
\* promise chain json().then().catch() is returned, pending
ToJsonResponseStep ==
    /\ NextHandlerIs("toJsonResponse")
    /\ invoked' = Append(invoked, [handler |-> "toJsonResponse", undef |-> FALSE])
    /\ bodyReads' = bodyReads + 1
    /\ jsonPromise' = "pending"
    /\ pc' = "awaitingJson"
    /\ UNCHANGED <<exchange, response, handlers, jsonContentTypeArg, jsonErrorMapperArg,
                   idx, mapperCalls, result, log>>

\* the promise of toJsonResponse is fulfilled with v, which fetchClient takes
\* as the HttpResponse of the exchange
Fulfil(v) ==
    /\ jsonPromise' = "fulfilled"
    /\ result' = v
    /\ pc' = "done"

\* response.json() resolved: the then() callback runs
JsonResolved ==
    /\ pc = "awaitingJson"
    /\ ~ReadJson(response).rejected
    /\ LET t == thenCallback(response, jsonErrorMapperArg, ReadJson(response).json)
       IN  /\ mapperCalls' = mapperCalls \o t.mapped
           /\ log' = log \o t.logged
           /\ IF t.thrown
              THEN /\ pc' = "catching"
                   /\ UNCHANGED <<jsonPromise, result>>
              ELSE Fulfil(t.value)
    /\ UNCHANGED <<exchange, response, handlers, jsonContentTypeArg, jsonErrorMapperArg,
                   idx, invoked, bodyReads>>

\* response.json() rejected: then() is skipped
JsonRejected ==
    /\ pc = "awaitingJson"
    /\ ReadJson(response).rejected
    /\ pc' = "catching"
    /\ UNCHANGED <<exchange, response, handlers, jsonContentTypeArg, jsonErrorMapperArg,
                   idx, invoked, bodyReads, mapperCalls, jsonPromise, result, log>>

\* the catch() callback runs on the rejection of json() or of then()
CatchStep ==
    /\ pc = "catching"
    /\ LET c == catchCallback
       IN  /\ log' = log \o c.logged
           /\ IF c.thrown
              THEN /\ jsonPromise' = "rejected"
                   /\ pc' = "faulted"
                   /\ UNCHANGED result
              ELSE Fulfil(c.value)
    /\ UNCHANGED <<exchange, response, handlers, jsonContentTypeArg, jsonErrorMapperArg,
                   idx, invoked, bodyReads, mapperCalls>>

\* every handler returned undefined: a generic error
NoVerdict ==
    /\ pc = "resolving"
    /\ idx > Len(handlers)
    /\ pc' = "done"
    /\ result' = ErrorOf(genericError)
    /\ UNCHANGED <<exchange, response, handlers, jsonContentTypeArg, jsonErrorMapperArg,
                   idx, invoked, bodyReads, mapperCalls, jsonPromise, log>>

\* the exchange is over and the caller goes on to its next request
NextExchange ==
    /\ pc \in {"done", "faulted"}
    /\ exchange < MaxExchanges
    /\ pc' = "idle"
    /\ response' = NoResponse
    /\ handlers' = <<>>
    /\ jsonContentTypeArg' = Omitted
    /\ jsonErrorMapperArg' = OmittedMapper
    /\ idx' = 1
    /\ invoked' = <<>>
    /\ bodyReads' = 0
    /\ mapperCalls' = <<>>
    /\ jsonPromise' = "none"
    /\ result' = EmptyResult
    /\ log' = <<>>
    /\ UNCHANGED exchange

Next ==
    \/ defaultJsonFetchClient
    \/ customJsonFetchClient
    \/ StatusValidatorStep
    \/ ContentTypeValidatorStep
    \/ ToJsonResponseStep
    \/ JsonResolved
    \/ JsonRejected
    \/ CatchStep
    \/ NoVerdict
    \/ NextExchange

Spec == Init /\ [][Next]_vars

-----------------------------------------------------------------------------
(* Properties.                                                             *)

\* the pipeline of defaultJsonFetchClient: its handlers, called with the Response alone
DefaultPipeline ==
    /\ handlers = defaultHandlers
    /\ ~jsonContentTypeArg.supplied
    /\ ~jsonErrorMapperArg.supplied

\* toJsonResponse was called and its promise chain has run to its end
ToJsonResponseEnded ==
    /\ jsonPromise # "none"
    /\ pc \in {"done", "faulted"}

WellFormed == ~response.bodyFails /\ response.body \in WellFormedBodies

Parsed == JsonParse(response.body).json

SuccessStatus == response.status \in {200, 204}

Populated(field) == field.type # "undefined"

\* sub occurs in s: s is some prefix, then sub, then some suffix
Contains(s, sub) ==
    \E i \in 0..Len(s) : \E j \in i..Len(s) : SubSeq(s, i + 1, j) = sub

\* C1: a response with a success status and a well-formed JSON body makes
\* toJsonResponse resolve to {response: <parsed body>}, without an error field
\* and without a call of the error mapper.
C1_SuccessYieldsParsedBody ==
    (jsonPromise # "none" /\ pc # "awaitingJson" /\ SuccessStatus /\ WellFormed) =>
        /\ pc = "done"
        /\ jsonPromise = "fulfilled"
        /\ result.response = Parsed
        /\ ~Populated(result.error)
        /\ mapperCalls = <<>>
        /\ response.body = "{\"id\":1}" =>
               result.response.fields["id"] = PrimNumber("1")

C1_Witness ==
    /\ ToJsonResponseEnded
    /\ response.status = 200
    /\ response.body = "{\"id\":1}"
    /\ ~response.bodyFails
    /\ result = ResponseOf(Obj1("id", PrimNumber("1")))

\* C2: with the default error mapper, a non-success response whose well-formed
\* JSON body has an errorCode that is not undefined (null, 0 and "" included)
\* resolves to {error: <parsed body>}, the parsed object unmodified.
C2_ErrorCodeYieldsParsedError ==
    (/\ ToJsonResponseEnded
     /\ ~jsonErrorMapperArg.supplied
     /\ ~SuccessStatus
     /\ response.body \in {"{\"errorCode\":\"NOT_FOUND\"}", "{\"errorCode\":null}",
                           "{\"errorCode\":0}", "{\"errorCode\":\"\"}"}) =>
        /\ pc = "done"
        /\ result = ErrorOf(Parsed)
        /\ Populated(result.error.fields["errorCode"])
        /\ response.body = "{\"errorCode\":\"NOT_FOUND\"}" =>
               result.error.fields["errorCode"] = PrimString("NOT_FOUND")

C2_Witness ==
    /\ ToJsonResponseEnded
    /\ ~jsonErrorMapperArg.supplied
    /\ response.status = 404
    /\ response.body = "{\"errorCode\":null}"
    /\ result = ErrorOf(Obj1("errorCode", PrimNull))

\* C3: with the default error mapper, a non-success response whose well-formed
\* JSON body has no errorCode resolves to {error: genericError}; so do bodies
\* that are no objects, the JSON value null included.
C3_NoErrorCodeYieldsGenericError ==
    (/\ ToJsonResponseEnded
     /\ ~jsonErrorMapperArg.supplied
     /\ ~SuccessStatus
     /\ response.body \in {"{\"id\":1}", "{\"message\":\"oops\"}", "{}", "null", "0",
                           "\"oops\"", "[]"}) =>
        /\ pc = "done"
        /\ result = ErrorOf(genericError)

C3_Witness ==
    /\ ToJsonResponseEnded
    /\ ~jsonErrorMapperArg.supplied
    /\ response.status = 500
    /\ response.body = "null"
    /\ Len(mapperCalls) = 1
    /\ mapperCalls[1].thrown
    /\ result = ErrorOf(genericError)

\* C4: a response whose body is not valid JSON makes toJsonResponse yield
\* {error: genericError} whatever the status, and the error mapper is never
\* invoked.
C4_MalformedYieldsGenericError ==
    (jsonPromise # "none" /\ response.body \in MalformedBodies) =>
        /\ mapperCalls = <<>>
        /\ pc \in {"awaitingJson", "catching", "done"}
        /\ pc = "done" => (jsonPromise = "fulfilled" /\ result = ErrorOf(genericError))

C4_Witness ==
    /\ ToJsonResponseEnded
    /\ response.status = 200
    /\ response.body = "{\"id\":1"
    /\ result = ErrorOf(genericError)

\* C5: in the default pipeline a response whose content-type header is absent
\* or does not contain 'application/json' resolves to {error: genericError}
\* and its body is never read; no body is read before the content-type
\* validator has returned undefined.
C5_WrongContentTypeNeverReadsBody ==
    DefaultPipeline =>
        /\ response.contentType \in {HeaderNull, Header(VendorJson), Header(UpperCaseJson),
                                     Header(TextPlain), Header(TextHtml)} =>
               /\ bodyReads = 0
               /\ jsonPromise = "none"
               /\ pc \in {"resolving", "done"}
               /\ pc = "done" => result = ErrorOf(genericError)
        /\ bodyReads > 0 =>
               \E i \in 1..Len(invoked) :
                   /\ invoked[i].handler = "jsonContentTypeValidator"
                   /\ invoked[i].undef

C5_Witness ==
    /\ DefaultPipeline
    /\ pc = "done"
    /\ response.status = 200
    /\ response.contentType = Header(TextHtml)
    /\ response.body = "{\"id\":1}"
    /\ bodyReads = 0
    /\ result = ErrorOf(genericError)

\* C6: jsonContentTypeValidator returns undefined exactly when the header is
\* present and contains the expected string ('application/json' when none is
\* given) as a case-sensitive substring; otherwise it returns a generic error.
C6_ContentTypeSubstringMatch ==
    \A i \in 1..Len(invoked) :
        invoked[i].handler = "jsonContentTypeValidator" =>
            LET expected == IF jsonContentTypeArg.supplied THEN jsonContentTypeArg.value
                            ELSE ApplicationJson
                passes == /\ response.contentType.present
                          /\ Contains(response.contentType.value, expected)
            IN  /\ invoked[i].undef <=> passes
                /\ ~invoked[i].undef => (pc = "done" /\ result = ErrorOf(genericError))
                /\ (response.contentType = Header(VendorJson)
                        /\ jsonContentTypeArg = Supplied(Json)) => invoked[i].undef
                /\ response.contentType \in {Header(TextPlain), Header(UpperCaseJson)} =>
                       ~invoked[i].undef

C6_Witness ==
    /\ jsonContentTypeArg = Supplied(Json)
    /\ response.contentType = Header(VendorJson)
    /\ Len(invoked) >= 1
    /\ invoked[Len(invoked)] = [handler |-> "jsonContentTypeValidator", undef |-> TRUE]

\* C7: the handlers are invoked in declaration order (status validator,
\* content-type validator, JSON resolver) and resolution stops at the first
\* one that returns something other than undefined: no later handler is
\* invoked for that response.
C7_HandlersInOrderUntilVerdict ==
    /\ Len(invoked) <= Len(handlers)
    /\ \A i \in 1..Len(invoked) :
           /\ invoked[i].handler = handlers[i]
           /\ ~invoked[i].undef => (i = Len(invoked) /\ pc # "resolving")
    /\ DefaultPipeline =>
           \A i \in 1..Len(invoked) :
               invoked[i].handler =
                   <<"validateBasicStatusCodes", "jsonContentTypeValidator",
                     "toJsonResponse">>[i]
    /\ (pc = "done" /\ invoked # <<>> /\ invoked[Len(invoked)].handler # "toJsonResponse"
            /\ ~invoked[Len(invoked)].undef) =>
           result = ErrorOf(genericError)

C7_Witness ==
    /\ DefaultPipeline
    /\ pc = "done"
    /\ Len(invoked) = 2
    /\ invoked[1].undef
    /\ ~invoked[2].undef
    /\ response.body \in WellFormedBodies

\* C8: the promise returned by toJsonResponse never rejects: a failure to read
\* or parse the body and a fault raised by the error mapper are turned into
\* the value {error: genericError}.
C8_ToJsonResponseNeverRejects ==
    /\ jsonPromise # "rejected"
    /\ pc # "faulted"
    /\ (/\ pc = "done"
        /\ jsonPromise # "none"
        /\ \/ response.bodyFails
           \/ response.body \in MalformedBodies
           \/ \E i \in 1..Len(mapperCalls) : mapperCalls[i].thrown) =>
           (jsonPromise = "fulfilled" /\ result = ErrorOf(genericError))

C8_Witness ==
    /\ pc = "done"
    /\ jsonPromise = "fulfilled"
    /\ jsonErrorMapperArg = Supplied("throwing")
    /\ Len(mapperCalls) = 1
    /\ mapperCalls[1].thrown
    /\ result = ErrorOf(genericError)

\* C9: every HttpResponse of the default pipeline has exactly one of response
\* and error populated, never both and never neither, a success response whose
\* JSON body is null included.
C9_ExactlyOneFieldPopulated ==
    (DefaultPipeline /\ pc = "done") =>
        Populated(result.response) # Populated(result.error)

C9_Witness ==
    /\ DefaultPipeline
    /\ pc = "done"
    /\ response.status = 200
    /\ response.body = "null"
    /\ result = ResponseOf(JsNull)

\* C10: a custom error mapper given to toJsonResponse is invoked once, with the
\* Response and the parsed JSON, exactly when the body parsed and the status
\* is non-success; what it returns is the HttpResponse of toJsonResponse (a
\* {response: ...} included), the default errorCode check not being applied.
C10_CustomMapperDecides ==
    (ToJsonResponseEnded /\ jsonErrorMapperArg.supplied) =>
        /\ Len(mapperCalls) = (IF WellFormed /\ ~SuccessStatus THEN 1 ELSE 0)
        /\ \A i \in 1..Len(mapperCalls) :
               /\ mapperCalls[i].response = response
               /\ mapperCalls[i].json = Parsed
               /\ ~mapperCalls[i].thrown => result = mapperCalls[i].value
               /\ jsonErrorMapperArg.value = "asResponse" => result = ResponseOf(Parsed)
               /\ jsonErrorMapperArg.value = "asCustomError" =>
                      result = ErrorOf(Obj1("errorCode", PrimString("CUSTOM")))

C10_Witness ==
    /\ ToJsonResponseEnded
    /\ jsonErrorMapperArg = Supplied("asResponse")
    /\ response.status = 500
    /\ response.body = "{\"message\":\"oops\"}"
    /\ Len(mapperCalls) = 1
    /\ result = ResponseOf(Obj1("message", PrimString("oops")))

====
